---- MODULE Spec2Model ----
(***************************************************************************)
(* FIX log parser (main.py): process_file decodes the lines of a log file  *)
(* one by one with parse_message, save_to_excel assembles the decoded      *)
(* records into one table.  Text is modelled character by character: a     *)
(* Python str is a sequence of one-character strings, so that find, split, *)
(* strip, slicing and the f-string of the source are computed, not assumed.*)
(***************************************************************************)
EXTENDS Integers, Sequences, FiniteSets, TLC

VARIABLES file, pos, line, tid, order_type, messages, table, error, pc

vars == <<file, pos, line, tid, order_type, messages, table, error, pc>>

----------------------------------------------------------------------------
(* Bounds of the explored inputs *)

\* number of pieces a generated preamble is made of
MaxPre == 4
\* number of '|'-separated parts of a generated body
MaxParts == 3
\* number of lines of a generated multi-line file
MaxLines == 3

----------------------------------------------------------------------------
(* Python str and list primitives *)

Range(s) == {s[i] : i \in 1..Len(s)}

Last(s) == s[Len(s)]

\* the characters str.strip() removes
Whitespace == {" ", "\t", "\n", "\r", "\f"}

\* sub occurs in s at 0-based offset i
OccursAt(s, sub, i) ==
    /\ i >= 0
    /\ i + Len(sub) <= Len(s)
    /\ \A j \in 1..Len(sub) : s[i + j] = sub[j]

\* s.find(sub, start): lowest 0-based offset >= start, or -1
str_find(s, sub, start) ==
    LET hits == {i \in start..(Len(s) - Len(sub)) : OccursAt(s, sub, i)}
    IN  IF hits = {} THEN -1
        ELSE CHOOSE i \in hits : \A j \in hits : i <= j

\* sub in s
str_contains(s, sub) == str_find(s, sub, 0) # -1

\* s[a:b] for 0 <= a and 0 <= b
str_slice(s, a, b) ==
    LET hi == IF b > Len(s) THEN Len(s) ELSE b
    IN  SubSeq(s, a + 1, hi)

\* s.strip()
str_strip(s) ==
    LET keep == {i \in 1..Len(s) : s[i] \notin Whitespace}
    IN  IF keep = {} THEN <<>>
        ELSE LET lo == CHOOSE i \in keep : \A j \in keep : i <= j
                 hi == CHOOSE i \in keep : \A j \in keep : i >= j
             IN  SubSeq(s, lo, hi)

\* s.split(sep, 1): one element when sep is absent, two otherwise
str_split1(s, sep) ==
    LET i == str_find(s, sep, 0)
    IN  IF i = -1 THEN <<s>>
        ELSE <<str_slice(s, 0, i), str_slice(s, i + Len(sep), Len(s))>>

\* s.split(sep)
RECURSIVE str_split(_, _)
str_split(s, sep) ==
    LET i == str_find(s, sep, 0)
    IN  IF i = -1 THEN <<s>>
        ELSE <<str_slice(s, 0, i)>>
             \o str_split(str_slice(s, i + Len(sep), Len(s)), sep)

----------------------------------------------------------------------------
(* Python values held by a record, and dict as an insertion-ordered map *)

Str(s) == [kind |-> "str", items |-> <<s>>]

List(l) == [kind |-> "list", items |-> l]

EmptyDict == [kind |-> "dict", items |-> <<>>]

\* the missing-value cell of a DataFrame
NaN == [kind |-> "nan", items |-> <<>>]

dict_keys(d) == [i \in 1..Len(d) |-> d[i][1]]

dict_has(d, k) == \E i \in 1..Len(d) : d[i][1] = k

dict_get(d, k) == d[CHOOSE i \in 1..Len(d) : d[i][1] = k][2]

\* dict_set that keeps the value a key already has
dict_set_keep_first(d, k, v) ==
    IF dict_has(d, k) THEN d ELSE Append(d, <<k, v>>)

\* d[k] = v: an existing key keeps its position, a new key goes last
dict_set(d, k, v) ==
    IF dict_has(d, k)
    THEN [i \in 1..Len(d) |-> IF d[i][1] = k THEN <<k, v>> ELSE d[i]]
    ELSE Append(d, <<k, v>>)

----------------------------------------------------------------------------
(* The field schema *)

columns_mapping == <<
    <<<<"T","I","D">>, <<"T","I","D">>>>,
    <<<<"O","r","d","e","r"," ","T","y","p","e">>, <<"O","r","d","e","r"," ","T","y","p","e">>>>,
    <<<<"8">>, <<"8"," ","B","e","g","i","n","S","t","r","i","n","g">>>>,
    <<<<"9">>, <<"9"," ","B","o","d","y","L","e","n","g","t","h">>>>,
    <<<<"3","5">>, <<"3","5"," ","M","s","g","T","y","p","e">>>>,
    <<<<"3","4">>, <<"3","4"," ","M","s","g","S","e","q","N","u","m">>>>,
    <<<<"4","9">>, <<"4","9"," ","S","e","n","d","e","r","C","o","m","p","I","D">>>>,
    <<<<"5","6">>, <<"5","6"," ","T","a","r","g","e","t","C","o","m","p","I","D">>>>,
    <<<<"5","7">>, <<"5","7"," ","T","a","r","g","e","t","S","u","b","I","D">>>>,
    <<<<"5","2">>, <<"5","2"," ","S","e","n","d","i","n","g","T","i","m","e">>>>,
    <<<<"1","1">>, <<"1","1"," ","C","l","O","r","d","I","D">>>>,
    <<<<"1","7">>, <<"1","7"," ","E","x","e","c","I","D">>>>,
    <<<<"3","7">>, <<"3","7"," ","O","r","d","e","r","I","D">>>>,
    <<<<"1","9","8">>, <<"1","9","8"," ","S","e","c","o","n","d","a","r","y","O","r","d","e","r","I","d">>>>,
    <<<<"1","5","0">>, <<"1","5","0"," ","E","x","e","c","T","y","p","e">>>>,
    <<<<"4","5","3">>, <<"4","5","3"," ","N","o","P","a","r","t","y","I","D","s">>>>,
    <<<<"4","4","8">>, <<"4","4","8"," ","P","a","r","t","y","I","D">>>>,
    <<<<"4","4","7">>, <<"4","4","7"," ","P","a","r","t","y","I","D","S","o","u","r","c","e">>>>,
    <<<<"4","5","2">>, <<"4","5","2"," ","P","a","r","t","y","R","o","l","e">>>>,
    <<<<"5","5">>, <<"5","5"," ","S","y","m","b","o","l">>>>,
    <<<<"4","8">>, <<"4","8"," ","S","e","c","u","r","i","t","y","I","D">>>>,
    <<<<"2","2">>, <<"2","2"," ","S","e","c","u","r","i","t","y","I","D","S","o","u","r","c","e">>>>,
    <<<<"7","6","2">>, <<"7","6","2"," ","S","e","c","u","r","i","t","y","S","u","b","T","y","p","e">>>>,
    <<<<"1">>, <<"1"," ","A","c","c","o","u","n","t">>>>,
    <<<<"1","4">>, <<"1","4"," ","C","u","m","Q","t","y">>>>,
    <<<<"3","1">>, <<"3","1"," ","L","a","s","t","P","x">>>>,
    <<<<"3","2">>, <<"3","2"," ","L","a","s","t","Q","t","y">>>>,
    <<<<"3","8">>, <<"3","8"," ","O","r","d","e","r","Q","t","y">>>>,
    <<<<"1","1","0">>, <<"1","1","0"," ","M","i","n","Q","t","y">>>>,
    <<<<"3","9">>, <<"3","9"," ","O","r","d","S","t","a","t","u","s">>>>,
    <<<<"4","0">>, <<"4","0"," ","O","r","d","T","y","p","e">>>>,
    <<<<"4","4">>, <<"4","4"," ","P","r","i","c","e">>>>,
    <<<<"8","4","7">>, <<"8","4","7"," ","T","a","r","g","e","t","S","t","r","a","t","e","g","y">>>>,
    <<<<"5","4">>, <<"5","4"," ","S","i","d","e">>>>,
    <<<<"5","9">>, <<"5","9"," ","T","i","m","e","I","n","F","o","r","c","e">>>>,
    <<<<"6","0">>, <<"6","0"," ","T","r","a","n","s","a","c","t","T","i","m","e">>>>,
    <<<<"7","5">>, <<"7","5"," ","T","r","a","d","e","D","a","t","e">>>>,
    <<<<"6","4">>, <<"6","4"," ","S","e","t","t","l","D","a","t","e">>>>,
    <<<<"1","5","1">>, <<"1","5","1"," ","L","e","a","v","e","s","Q","t","y">>>>,
    <<<<"8","8","0">>, <<"8","8","0"," ","T","r","d","M","a","t","c","h","I","D">>>>,
    <<<<"1","8","9","1">>, <<"1","8","9","1"," ","T","r","d","M","a","t","c","h","S","u","b","I","D">>>>,
    <<<<"1","0","5","7">>, <<"1","0","5","7"," ","A","g","g","r","e","s","s","o","r","I","n","d","i","c","a","t","o","r">>>>,
    <<<<"3","8","1">>, <<"3","8","1"," ","G","r","o","s","s","T","r","a","d","e","A","m","t">>>>,
    <<<<"7","9","7">>, <<"7","9","7"," ","C","o","p","y","M","s","g","I","n","d","i","c","a","t","o","r">>>>,
    <<<<"1","0">>, <<"1","0"," ","C","h","e","c","k","S","u","m">>>>
>>

SEP == <<"]",":"," ">>

TID_MARKER == <<"(","T","I","D","=">>

ORDER_TYPE_MARKER == <<"|"," ">>

K_TID == <<"T","I","D">>

K_ORDER_TYPE == <<"O","r","d","e","r"," ","T","y","p","e">>

K_UNKNOWN_TAGS == <<"U","n","k","n","o","w","n"," ","T","a","g","s">>

UNKNOWN_TAG_PREFIX == <<"U","n","k","n","o","w","n"," ","T","a","g"," ">>

TAG_448 == <<"4","4","8">>

TAG_447 == <<"4","4","7">>

TAG_452 == <<"4","5","2">>

COL_448 == <<"4","4","8"," ","P","a","r","t","y","I","D">>

COL_447 == <<"4","4","7"," ","P","a","r","t","y","I","D","S","o","u","r","c","e">>

COL_452 == <<"4","5","2"," ","P","a","r","t","y","R","o","l","e">>

UNKNOWN_TID == <<"U","n","k","n","o","w","n"," ","T","I","D">>

UNKNOWN_ORDER_TYPE == <<"U","n","k","n","o","w","n"," ","O","r","d","e","r"," ","T","y","p","e">>

----------------------------------------------------------------------------
(* Message decoder *)

\* line.split(']: ', 1) cannot be unpacked into two names
RaisesValueError(ln) == Len(str_split1(ln, SEP)) # 2

\* extract_preamble_details taking the last '| ' of the preamble, unstripped
extract_preamble_details_last(ln) ==
    LET preamble == str_split1(ln, SEP)[1]
        tid_marker == str_find(preamble, TID_MARKER, 0)
        tid_end == str_find(preamble, <<")">>, tid_marker) + 1
        hits == {i \in 0..Len(preamble) :
                    OccursAt(preamble, ORDER_TYPE_MARKER, i)}
    IN  [tid |-> IF tid_marker # -1
                 THEN str_strip(str_slice(preamble, 0, tid_end))
                 ELSE UNKNOWN_TID,
         order_type |->
                 IF hits # {}
                 THEN str_strip(str_slice(preamble,
                          (CHOOSE i \in hits : \A j \in hits : i >= j) + 2,
                          Len(preamble)))
                 ELSE UNKNOWN_ORDER_TYPE]

extract_preamble_details(ln) ==
    LET preamble == str_split1(ln, SEP)[1]
        tid_marker == str_find(preamble, TID_MARKER, 0)
        tid_end == str_find(preamble, <<")">>, tid_marker) + 1
        order_type_marker == str_find(preamble, ORDER_TYPE_MARKER, 0)
    IN  [tid |-> IF tid_marker # -1
                 THEN str_strip(str_slice(preamble, 0, tid_end))
                 ELSE UNKNOWN_TID,
         order_type |->
                 IF order_type_marker # -1
                 THEN str_strip(str_slice(preamble, order_type_marker + 2,
                                          Len(preamble)))
                 ELSE UNKNOWN_ORDER_TYPE]

\* parse_part whose '447' branch appends to partyIDs
parse_part_447_as_448(st, part) ==
    IF ~str_contains(part, <<"=">>) THEN st
    ELSE LET kv == str_split1(part, <<"=">>)
             key == kv[1]
             value == kv[2]
         IN  IF dict_has(columns_mapping, key)
             THEN IF key \in {TAG_448, TAG_447, TAG_452}
                  THEN IF key = TAG_448 \/ key = TAG_447
                       THEN [st EXCEPT !.partyIDs = Append(@, value)]
                       ELSE [st EXCEPT !.partyRoles = Append(@, value)]
                  ELSE [st EXCEPT !.data =
                           dict_set(@, dict_get(columns_mapping, key),
                                    Str(value))]
             ELSE [st EXCEPT !.data =
                      dict_set(@, UNKNOWN_TAG_PREFIX \o key, Str(value))]

\* one iteration of the loop over message_str.split('|')
parse_part(st, part) ==
    IF ~str_contains(part, <<"=">>) THEN st
    ELSE LET kv == str_split1(part, <<"=">>)
             key == kv[1]
             value == kv[2]
         IN  IF dict_has(columns_mapping, key)
             THEN IF key \in {TAG_448, TAG_447, TAG_452}
                  THEN IF key = TAG_448
                       THEN [st EXCEPT !.partyIDs = Append(@, value)]
                       ELSE IF key = TAG_447
                       THEN [st EXCEPT !.partyIDSources = Append(@, value)]
                       ELSE [st EXCEPT !.partyRoles = Append(@, value)]
                  ELSE [st EXCEPT !.data =
                           dict_set(@, dict_get(columns_mapping, key),
                                    Str(value))]
             ELSE [st EXCEPT !.data =
                      dict_set(@, UNKNOWN_TAG_PREFIX \o key, Str(value))]

RECURSIVE parse_parts(_, _)
parse_parts(st, parts) ==
    IF parts = <<>> THEN st
    ELSE parse_parts(parse_part(st, Head(parts)), Tail(parts))

parse_message(ln) ==
    LET details == extract_preamble_details(ln)
        data0 == <<  <<K_UNKNOWN_TAGS, EmptyDict>>,
                     <<K_TID, Str(details.tid)>>,
                     <<K_ORDER_TYPE, Str(details.order_type)>>  >>
        message_str == str_split1(ln, SEP)[2]
        st == parse_parts([data |-> data0, partyIDs |-> <<>>,
                           partyIDSources |-> <<>>, partyRoles |-> <<>>],
                          str_split(message_str, <<"|">>))
    IN  IF st.partyIDs # <<>>
        THEN dict_set(dict_set(dict_set(st.data,
                 COL_448, List(st.partyIDs)),
                 COL_447, List(st.partyIDSources)),
                 COL_452, List(st.partyRoles))
        ELSE st.data

----------------------------------------------------------------------------
(* Table assembler *)

\* the union of the records' keys in order of first appearance
RECURSIVE add_keys(_, _)
add_keys(cols, keys) ==
    IF keys = <<>> THEN cols
    ELSE add_keys(IF Head(keys) \in Range(cols) THEN cols
                  ELSE Append(cols, Head(keys)),
                  Tail(keys))

RECURSIVE frame_columns(_, _)
frame_columns(cols, msgs) ==
    IF msgs = <<>> THEN cols
    ELSE frame_columns(add_keys(cols, dict_keys(Head(msgs))), Tail(msgs))

\* pd.DataFrame(messages): one row per record, NaN where a key is missing
DataFrame(msgs) ==
    LET cols == frame_columns(<<>>, msgs)
    IN  [columns |-> cols,
         rows |-> [i \in 1..Len(msgs) |->
                     [j \in 1..Len(cols) |->
                        IF dict_has(msgs[i], cols[j])
                        THEN dict_get(msgs[i], cols[j]) ELSE NaN]]]

\* df.reindex(columns=cols)
reindex(df, cols) ==
    [columns |-> cols,
     rows |-> [i \in 1..Len(df.rows) |->
                 [j \in 1..Len(cols) |->
                    IF cols[j] \in Range(df.columns)
                    THEN df.rows[i][CHOOSE k \in 1..Len(df.columns) :
                                       df.columns[k] = cols[j]]
                    ELSE NaN]]]

ordered_columns ==
    LET tags == SelectSeq(dict_keys(columns_mapping),
                          LAMBDA tag : tag \notin {K_TID, K_ORDER_TYPE})
    IN  <<K_TID, K_ORDER_TYPE>>
        \o [i \in 1..Len(tags) |-> dict_get(columns_mapping, tags[i])]

\* save_to_excel that leaves the extra columns out of the final order
save_to_excel_schema_only(msgs) == reindex(DataFrame(msgs), ordered_columns)

save_to_excel(msgs) ==
    LET df == DataFrame(msgs)
        extra_columns == SelectSeq(df.columns,
                                   LAMBDA col : col \notin Range(ordered_columns))
        final_columns_order == ordered_columns \o extra_columns
    IN  reindex(df, final_columns_order)

----------------------------------------------------------------------------
(* Input files *)

RECURSIVE Join(_, _)
Join(ss, sep) ==
    IF ss = <<>> THEN <<>>
    ELSE IF Len(ss) = 1 THEN ss[1]
    ELSE ss[1] \o sep \o Join(Tail(ss), sep)

SeqsUpTo(S, n) == UNION {[1..k -> S] : k \in 0..n}

PrePieces == {TID_MARKER, <<")">>, ORDER_TYPE_MARKER, <<" ">>, <<"x">>}

BodyParts == {<<"4","4","8","=","A">>, <<"4","4","8","=","B">>, <<"4","4","7","=","A">>, <<"4","5","2","=","B">>, <<"3","5","=","A">>, <<"3","5","=","B">>,
              <<"9","9","=","A">>, <<"9","9","=","B">>, <<"9","8","=","A">>, <<"T","I","D","=","A">>, <<"z">>}

PreambleLines ==
    {Join(p, <<>>) \o <<"]",":"," ","3","5","=","D">> : p \in SeqsUpTo(PrePieces, MaxPre)}

BodyLines ==
    {<<"(","T","I","D","=","1",")"," ","|"," ","N","e","w","]",":"," ">> \o Join(b, <<"|">>) : b \in SeqsUpTo(BodyParts, MaxParts)}

SchemaLines ==
    {<<"x","]",":"," ">> \o columns_mapping[i][1] \o <<"=","V">> : i \in 1..Len(columns_mapping)}

ExampleLines ==
    {<<"S","e","s","s","i","o","n","(","T","I","D","=","X","Y","Z","1","2","3",")"," ","|"," ","N","e","w","O","r","d","e","r","]",":"," ","3","5","=","D","|","5","5","=","A","A","P","L">>,
     <<"x","]",":"," ","4","4","8","=","A","|","4","4","7","=","B","|","4","5","2","=","1","|","4","4","8","=","C","|","4","4","7","=","D","|","4","5","2","=","2">>,
     <<"x"," ","|"," ","a","|"," ","b","]",":"," ","3","5","=","A","=","B","|","O","r","d","e","r"," ","T","y","p","e","=","M","|","1","0","=","1","|">>,
     <<"x","]",":"," ","y","]",":"," ","9","9","9","9","=","1","|","=","2">>,
     <<"x","]",":"," ","3","5","=","A","|","9","9","=","A","|","3","5","=","B","|","9","9","=","B">>}

BatchLines ==
    {<<>>, <<" ">>, <<"n","o"," ","s","e","p","a","r","a","t","o","r">>, <<"x","]",":"," ","3","5","=","A">>, <<"x","]",":"," ","4","4","=","A","|","9","9","=","B">>,
     <<"(","T","I","D","=","1",")"," ","|"," ","N","e","w","]",":"," ","9","8","=","A","|","9","9","=","A">>, <<"x","]",":"," ","4","4","8","=","A","|","4","4","7","=","B">>, <<"x","]",":"," ","9","9","=","A","|","9","8","=","B">>}

Contents ==
    {<<l>> : l \in PreambleLines \cup BodyLines \cup SchemaLines
                   \cup ExampleLines}
    \cup SeqsUpTo(BatchLines, MaxLines)

\* the lines the file iterator yields: each keeps its newline, the last
\* one has none when the file does not end with a newline
FileLines(contents, eof_newline) ==
    LET n == Len(contents)
        all == [i \in 1..n |->
                  IF i < n \/ eof_newline THEN contents[i] \o <<"\n">>
                  ELSE contents[i]]
    IN  IF n > 0 /\ all[n] = <<>> THEN SubSeq(all, 1, n - 1) ELSE all

----------------------------------------------------------------------------
(* The program *)

NoTable == [columns |-> <<>>, rows |-> <<>>]

Init ==
    /\ \E contents \in Contents, eof_newline \in BOOLEAN :
          file = FileLines(contents, eof_newline)
    /\ pos = 1
    /\ line = <<>>
    /\ tid = <<>>
    /\ order_type = <<>>
    /\ messages = <<>>
    /\ table = NoTable
    /\ error = "none"
    /\ pc = "process_file"

\* process_file: a line whose strip() is empty is filtered out
SkipBlankLine ==
    /\ pc = "process_file"
    /\ pos <= Len(file)
    /\ str_strip(file[pos]) = <<>>
    /\ pos' = pos + 1
    /\ UNCHANGED <<file, line, tid, order_type, messages, table, error, pc>>

\* process_file: parse_message(line) returns a record
ParseLine ==
    /\ pc = "process_file"
    /\ pos <= Len(file)
    /\ str_strip(file[pos]) # <<>>
    /\ ~RaisesValueError(file[pos])
    /\ line' = file[pos]
    /\ tid' = extract_preamble_details(file[pos]).tid
    /\ order_type' = extract_preamble_details(file[pos]).order_type
    /\ messages' = Append(messages, parse_message(file[pos]))
    /\ pos' = pos + 1
    /\ UNCHANGED <<file, table, error, pc>>

\* process_file: parse_message(line) raises, nothing catches it
RaiseValueError ==
    /\ pc = "process_file"
    /\ pos <= Len(file)
    /\ str_strip(file[pos]) # <<>>
    /\ RaisesValueError(file[pos])
    /\ line' = file[pos]
    /\ error' = "ValueError"
    /\ pc' = "raised"
    /\ UNCHANGED <<file, pos, tid, order_type, messages, table>>

\* process_file returns the list of records
ReturnMessages ==
    /\ pc = "process_file"
    /\ pos > Len(file)
    /\ pc' = "save_to_excel"
    /\ UNCHANGED <<file, pos, line, tid, order_type, messages, table, error>>

SaveToExcel ==
    /\ pc = "save_to_excel"
    /\ table' = save_to_excel(messages)
    /\ pc' = "done"
    /\ UNCHANGED <<file, pos, line, tid, order_type, messages, error>>

Next ==
    \/ SkipBlankLine
    \/ ParseLine
    \/ RaiseValueError
    \/ ReturnMessages
    \/ SaveToExcel

Spec == Init /\ [][Next]_vars

TypeOK ==
    /\ pos \in 1..(Len(file) + 1)
    /\ Len(messages) <= Len(file)
    /\ pc \in {"process_file", "save_to_excel", "done", "raised"}
    /\ error \in {"none", "ValueError"}
    /\ (pc = "raised") <=> (error = "ValueError")

----------------------------------------------------------------------------
(* Vocabulary of the properties, stated on the text of the input *)

\* the latest call of parse_message returned a record for `line`
Decoded == messages # <<>> /\ error = "none"

\* offset of the first ']: ' of a line that has one
FirstSep(ln) ==
    CHOOSE i \in 0..Len(ln) :
        OccursAt(ln, SEP, i) /\ \A j \in 0..(i - 1) : ~OccursAt(ln, SEP, j)

PreambleOf(ln) == SubSeq(ln, 1, FirstSep(ln))

BodyOf(ln) == SubSeq(ln, FirstSep(ln) + Len(SEP) + 1, Len(ln))

\* the parts of a body that carry a tag: those with an '='
TaggedParts(ln) ==
    SelectSeq(str_split(BodyOf(ln), <<"|">>), LAMBDA p : "=" \in Range(p))

FirstEq(p) == CHOOSE i \in 1..Len(p) : p[i] = "=" /\ \A j \in 1..(i - 1) : p[j] # "="

TagOf(p) == SubSeq(p, 1, FirstEq(p) - 1)

ValueOf(p) == SubSeq(p, FirstEq(p) + 1, Len(p))

\* the values of the parts carrying tag, in body order
ValuesOf(ln, tag) ==
    LET ps == SelectSeq(TaggedParts(ln), LAMBDA p : TagOf(p) = tag)
    IN  [i \in 1..Len(ps) |-> ValueOf(ps[i])]

Repeating == {TAG_448, TAG_447, TAG_452}

SchemaTags == {columns_mapping[i][1] : i \in 1..Len(columns_mapping)}

DisplayName(tag) ==
    columns_mapping[CHOOSE i \in 1..Len(columns_mapping) :
                        columns_mapping[i][1] = tag][2]

\* the record key a non-repeating tag is stored under
KeyFor(tag) ==
    IF tag \in SchemaTags THEN DisplayName(tag) ELSE UNKNOWN_TAG_PREFIX \o tag

\* r is s without its leading and trailing whitespace
IsStripOf(r, s) ==
    \E a \in 0..Len(s), b \in 0..Len(s) :
        /\ a <= b
        /\ r = SubSeq(s, a + 1, b)
        /\ \A i \in 1..a : s[i] \in Whitespace
        /\ \A i \in (b + 1)..Len(s) : s[i] \in Whitespace
        /\ r = <<>> \/ (r[1] \notin Whitespace /\ r[Len(r)] \notin Whitespace)

\* a line process_file hands to parse_message that can be decoded
IsValidLine(ln) ==
    /\ \E i \in 1..Len(ln) : ln[i] \notin Whitespace
    /\ \E i \in 0..Len(ln) : OccursAt(ln, SEP, i)

\* s without the later duplicates of its elements
RECURSIVE FirstSeen(_)
FirstSeen(s) ==
    IF s = <<>> THEN <<>>
    ELSE LET init == FirstSeen(SubSeq(s, 1, Len(s) - 1))
         IN  IF Last(s) \in Range(init) THEN init ELSE Append(init, Last(s))

RECURSIVE Flatten(_)
Flatten(ss) == IF ss = <<>> THEN <<>> ELSE Head(ss) \o Flatten(Tail(ss))

----------------------------------------------------------------------------
(* Properties *)

\* C1: when the run ends, every decodable line of the file has its row in
\* the result, whatever undecodable lines (no ']: ') the file also holds.
C1_ValidLinesSurvive ==
    pc \in {"done", "raised"} =>
        LET valid == SelectSeq(file, IsValidLine)
        IN  /\ pc = "done" \/ valid = <<>>
            /\ Len(table.rows) = Len(valid)

\* C2: the column sequence is 'TID', 'Order Type', the schema display names
\* in schema order, then 'Unknown Tag <code>' per unknown tag code in order
\* of first appearance, and nothing else.
C2_ExactColumns ==
    pc = "done" =>
        LET valid == SelectSeq(file, IsValidLine)
            codes == Flatten([i \in 1..Len(valid) |->
                        LET ps == TaggedParts(valid[i])
                        IN  [k \in 1..Len(ps) |-> TagOf(ps[k])]])
            unknown == FirstSeen(SelectSeq(codes,
                                           LAMBDA c : c \notin SchemaTags))
        IN  table.columns =
                [i \in 1..Len(columns_mapping) |-> columns_mapping[i][2]]
                \o [i \in 1..Len(unknown) |-> UNKNOWN_TAG_PREFIX \o unknown[i]]

\* C3: a single-line file whose body is one part with a schema tag yields a
\* one-row table whose cell in that tag's display-name column is the value.
C3_SchemaCompleteness ==
    (/\ pc = "done"
     /\ Len(file) = 1
     /\ IsValidLine(file[1])
     /\ "|" \notin Range(BodyOf(file[1]))
     /\ Len(TaggedParts(file[1])) = 1
     /\ TagOf(TaggedParts(file[1])[1]) \in SchemaTags)
    => LET p == TaggedParts(file[1])[1]
       IN  /\ Len(table.rows) = 1
           /\ \E j \in 1..Len(table.columns) :
                 /\ table.columns[j] = DisplayName(TagOf(p))
                 /\ table.rows[1][j].items = <<ValueOf(p)>>

\* C4: the three repeating-group sequences are attached, unpadded, as soon
\* as one of them is non-empty, and absent only when all three are empty.
C4_GroupAttachedIfAny ==
    Decoded =>
        LET d == Last(messages)
            ids == ValuesOf(line, TAG_448)
            srcs == ValuesOf(line, TAG_447)
            roles == ValuesOf(line, TAG_452)
        IN  IF ids # <<>> \/ srcs # <<>> \/ roles # <<>>
            THEN /\ dict_has(d, COL_448) /\ dict_get(d, COL_448) = List(ids)
                 /\ dict_has(d, COL_447) /\ dict_get(d, COL_447) = List(srcs)
                 /\ dict_has(d, COL_452) /\ dict_get(d, COL_452) = List(roles)
            ELSE ~dict_has(d, COL_448) /\ ~dict_has(d, COL_447)
                 /\ ~dict_has(d, COL_452)

\* C5: the record's 'TID' and 'Order Type' are the values derived from the
\* preamble, whatever the body parts are.
C5_PreambleOnly ==
    Decoded =>
        /\ dict_get(Last(messages), K_TID) = Str(tid)
        /\ dict_get(Last(messages), K_ORDER_TYPE) = Str(order_type)

\* C6: with '(TID=' in the preamble the transaction ID is the preamble
\* prefix through the first ')' at or after the marker, otherwise it is
\* 'Unknown TID'.
C6_TidIsPrefix ==
    Decoded =>
        LET pre == PreambleOf(line)
            marks == {i \in 0..Len(pre) : OccursAt(pre, TID_MARKER, i)}
        IN  IF marks = {} THEN tid = UNKNOWN_TID
            ELSE \E m \in marks, e \in 1..Len(pre) :
                    /\ \A k \in marks : m <= k
                    /\ e > m /\ pre[e] = ")"
                    /\ \A k \in (m + 1)..(e - 1) : pre[k] # ")"
                    /\ tid = SubSeq(pre, 1, e)

\* C7: the table is rectangular: each key of each record is exactly one
\* column, each row has one cell per column holding the record's value or
\* the empty cell, and an empty batch gives the canonical header, no rows.
C7_Rectangular ==
    pc = "done" =>
        /\ Len(table.rows) = Len(messages)
        /\ \A i \in 1..Len(messages) :
              /\ Len(table.rows[i]) = Len(table.columns)
              /\ \A k \in Range(dict_keys(messages[i])) :
                    Cardinality({j \in 1..Len(table.columns) :
                                    table.columns[j] = k}) = 1
              /\ \A j \in 1..Len(table.columns) :
                    table.rows[i][j] =
                        IF dict_has(messages[i], table.columns[j])
                        THEN dict_get(messages[i], table.columns[j])
                        ELSE NaN
        /\ messages = <<>> =>
              /\ table.rows = <<>>
              /\ table.columns =
                    [i \in 1..Len(columns_mapping) |-> columns_mapping[i][2]]

\* C7 witness: two rows, a column one record carries and the other does not
C7_Witness ==
    /\ pc = "done"
    /\ Len(table.rows) = 2
    /\ \E j \in 1..Len(table.columns) :
          /\ table.columns[j] = <<"4","4"," ","P","r","i","c","e">>
          /\ table.rows[1][j] = NaN
          /\ table.rows[2][j] = Str(<<"A">>)

\* C8: each attached repeating-group sequence is the values of its tag's
\* parts in body order.
C8_GroupOrder ==
    Decoded =>
        LET d == Last(messages)
        IN  /\ dict_has(d, COL_448) =>
                 dict_get(d, COL_448) = List(ValuesOf(line, TAG_448))
            /\ dict_has(d, COL_447) =>
                 dict_get(d, COL_447) = List(ValuesOf(line, TAG_447))
            /\ dict_has(d, COL_452) =>
                 dict_get(d, COL_452) = List(ValuesOf(line, TAG_452))

\* C8 witness: body 448=A|447=B|452=1|448=C|447=D|452=2 was decoded
C8_Witness ==
    /\ Decoded
    /\ BodyOf(line) = <<"4","4","8","=","A","|","4","4","7","=","B","|","4","5","2","=","1","|","4","4","8","=","C","|","4","4","7","=","D","|","4","5","2","=","2">>
    /\ dict_get(Last(messages), COL_448) = List(<<<<"A">>, <<"C">>>>)
    /\ dict_get(Last(messages), COL_447) = List(<<<<"B">>, <<"D">>>>)
    /\ dict_get(Last(messages), COL_452) = List(<<<<"1">>, <<"2">>>>)

\* C9: a non-repeating tag occurring in several parts is stored once, with
\* the value of its last occurrence, and the record has no other entries.
C9_LastOccurrenceWins ==
    Decoded =>
        LET d == Last(messages)
            ps == SelectSeq(TaggedParts(line),
                            LAMBDA p : TagOf(p) \notin Repeating)
        IN  /\ \A i \in 1..Len(ps) :
                  /\ Cardinality({n \in 1..Len(d) :
                                     d[n][1] = KeyFor(TagOf(ps[i]))}) = 1
                  /\ \E j \in i..Len(ps) :
                        /\ TagOf(ps[j]) = TagOf(ps[i])
                        /\ \A k \in (j + 1)..Len(ps) :
                              TagOf(ps[k]) # TagOf(ps[i])
                        /\ dict_get(d, KeyFor(TagOf(ps[i])))
                               = Str(ValueOf(ps[j]))
            /\ Range(dict_keys(d)) \subseteq
                  {K_UNKNOWN_TAGS, K_TID, K_ORDER_TYPE, COL_448, COL_447,
                   COL_452}
                  \cup {KeyFor(TagOf(ps[i])) : i \in 1..Len(ps)}

\* C9 witness: a known and an unknown tag each occur twice with two values
C9_Witness ==
    /\ Decoded
    /\ BodyOf(line) = <<"3","5","=","A","|","9","9","=","A","|","3","5","=","B","|","9","9","=","B">>
    /\ dict_get(Last(messages), <<"3","5"," ","M","s","g","T","y","p","e">>) = Str(<<"B">>)
    /\ dict_get(Last(messages), <<"U","n","k","n","o","w","n"," ","T","a","g"," ","9","9">>) = Str(<<"B">>)

\* C10: with '| ' in the preamble the classifier is the text after its
\* first occurrence, stripped; otherwise it is 'Unknown Order Type'.
C10_Classifier ==
    Decoded =>
        LET pre == PreambleOf(line)
            marks == {i \in 0..Len(pre) : OccursAt(pre, ORDER_TYPE_MARKER, i)}
        IN  IF marks = {} THEN order_type = UNKNOWN_ORDER_TYPE
            ELSE \E m \in marks :
                    /\ \A k \in marks : m <= k
                    /\ IsStripOf(order_type, SubSeq(pre, m + 3, Len(pre)))

\* C10 witness: '| ' occurs twice, '(TID=' after the first one, and the
\* text after the first one has whitespace to strip
C10_Witness ==
    /\ Decoded
    /\ Cardinality({i \in 0..Len(PreambleOf(line)) :
                       OccursAt(PreambleOf(line), ORDER_TYPE_MARKER, i)}) = 2
    /\ \E i \in 0..Len(order_type) : OccursAt(order_type, TID_MARKER, i)
    /\ \E i \in 0..Len(order_type) : OccursAt(order_type, ORDER_TYPE_MARKER, i)
    /\ Len(order_type) + 2 < Len(PreambleOf(line))
    /\ PreambleOf(line)[1] = "|"

====
